---- MODULE Spec2Model ----
(***************************************************************************)
(* A model of s5-utils-nodejs: the multibase codecs (basetools), the size  *)
(* codec and the prefixed CID text forms (tools), and the CID packing and  *)
(* extraction operations (blake3tools).                                    *)
(*                                                                         *)
(* Bytes are numbers 0..255, a Buffer is a sequence of bytes, a string is  *)
(* a sequence of one-character strings.  A JavaScript number that holds a  *)
(* size is kept as its little-endian base-256 digits without high zero     *)
(* digits (<<>> is 0), so that values of 2^31 and more can be told apart;  *)
(* the int32 values the bit operators produce are plain integers.          *)
(***************************************************************************)
EXTENDS Integers, Sequences, FiniteSets, TLC

VARIABLES
    cpc, codec, origin, data, text, decoded,    \* the codec round trip
    spc, szValue, szMax, szBuf, szNum,          \* the size round trip
    xpc, xorig, xbytes, xtext, xtrail,          \* a CID through its text forms
    pc, op, src, arg, cidBuf, i, hashSize,      \* a call of a blake3tools
    stage, partial, ret,                        \* operation
    stream, hasher, promise,                    \* a file being hashed
    fileSizeCounter, endProgressCounter,        \* the upload progress tracker
    stdout, call

codecVars == <<cpc, codec, origin, data, text, decoded>>
sizeVars == <<spc, szValue, szMax, szBuf, szNum>>
crossVars == <<xpc, xorig, xbytes, xtext, xtrail>>
cidVars == <<pc, op, src, arg, cidBuf, i, hashSize, stage, partial, ret>>
streamVars == <<stream, hasher, promise>>
progressVars == <<fileSizeCounter, endProgressCounter, stdout, call>>
vars == <<codecVars, sizeVars, crossVars, cidVars, streamVars, progressVars>>

(***************************************************************************)
(* Results of a call: a returned value or a thrown Error with its message. *)
(***************************************************************************)
Ok(v) == [kind |-> "value", val |-> v]
Throw(msg) == [kind |-> "throw", err |-> msg]
None == [kind |-> "none"]

(***************************************************************************)
(* Bounds of the model.                                                    *)
(***************************************************************************)
MaxLen == 6          \* longest byte sequence given to a bare codec
MaxTextLen == 3      \* longest arbitrary text given to a bare decoder

ByteVals == {0, 165, 255}
TextChars == {"A", "b", "1", "0", "_", "!"}

RECURSIVE SeqsUpTo(_, _)
SeqsUpTo(S, n) ==
    IF n = 0 THEN {<<>>}
    ELSE LET shorter == SeqsUpTo(S, n - 1)
         IN shorter \cup {Append(s, x) : s \in {t \in shorter : Len(t) = n - 1}, x \in S}

(***************************************************************************)
(* JavaScript's 32-bit integer operators, on integers in -2^31 .. 2^31-1.  *)
(***************************************************************************)
Pow2(n) ==
    <<1, 2, 4, 8, 16, 32, 64, 128, 256, 512, 1024, 2048, 4096, 8192, 16384, 32768,
      65536, 131072, 262144, 524288, 1048576, 2097152, 4194304, 8388608, 16777216,
      33554432, 67108864, 134217728, 268435456, 536870912, 1073741824>>[n + 1]

\* x << 1: the top bit is lost and bit 30 becomes the sign
Shl1(x) ==
    IF x >= 1073741824 THEN (2 * (x - 1073741824) - 2147483647) - 1
    ELSE IF x < -1073741824 THEN (2 * (x + 1073741824) + 2147483647) + 1
    ELSE 2 * x

\* x << n, for 0 <= n <= 30: the low 32-n bits of x move up, bit 31-n becomes the sign
Shl32(x, n) ==
    IF n = 0 THEN x
    ELSE IF n = 1 THEN Shl1(x)
    ELSE LET low == x % Pow2(31 - n)
             sign == (x \div Pow2(31 - n)) % 2
         IN IF sign = 1 THEN (low * Pow2(n) - 2147483647) - 1
            ELSE low * Pow2(n)

\* x >> n: the sign-propagating shift
Shr32(x, n) == x \div Pow2(n)

\* the int32 with the bit pattern of x >>> n (for n >= 1 that is its value)
UShr32(x, n) ==
    IF n = 0 \/ x >= 0 THEN x \div Pow2(n)
    ELSE (x \div Pow2(n)) + Pow2(31 - n) + Pow2(31 - n)

RECURSIVE Or32(_, _)
Or32(a, b) ==
    IF a = 0 THEN b
    ELSE IF b = 0 THEN a
    ELSE IF a = -1 \/ b = -1 THEN -1
    ELSE (IF a % 2 = 1 \/ b % 2 = 1 THEN 1 ELSE 0) + 2 * Or32(a \div 2, b \div 2)

RECURSIVE And32(_, _)
And32(a, b) ==
    IF a = 0 \/ b = 0 THEN 0
    ELSE IF a = -1 THEN b
    ELSE IF b = -1 THEN a
    ELSE (a % 2) * (b % 2) + 2 * And32(a \div 2, b \div 2)

\* a store into a Buffer or Uint8Array element keeps the low 8 bits
ToUint8(x) == x % 256

(***************************************************************************)
(* Strings.                                                                *)
(***************************************************************************)
\* a function on 1..n as the sequence it is
AsSeq(f) == SubSeq(f, 1, Len(f))

UpperLetters == <<"A","B","C","D","E","F","G","H","I","J","K","L","M",
                  "N","O","P","Q","R","S","T","U","V","W","X","Y","Z">>
LowerLetters == <<"a","b","c","d","e","f","g","h","i","j","k","l","m",
                  "n","o","p","q","r","s","t","u","v","w","x","y","z">>
Digits == <<"0","1","2","3","4","5","6","7","8","9">>

Range(s) == {s[k] : k \in 1..Len(s)}

\* String.prototype.indexOf for one character: the first index, from 0, or -1
IndexOf(alphabet, c) ==
    IF c \in Range(alphabet)
    THEN (CHOOSE k \in 1..Len(alphabet) :
              alphabet[k] = c /\ \A m \in 1..(k - 1) : alphabet[m] # c) - 1
    ELSE -1

toLowerCase(str) ==
    AsSeq([k \in 1..Len(str) |->
        IF str[k] \in Range(UpperLetters)
        THEN LowerLetters[IndexOf(UpperLetters, str[k]) + 1] ELSE str[k]])

toUpperCase(str) ==
    AsSeq([k \in 1..Len(str) |->
        IF str[k] \in Range(LowerLetters)
        THEN UpperLetters[IndexOf(LowerLetters, str[k]) + 1] ELSE str[k]])

\* str.substring(n)
Substring(str, n) == SubSeq(str, n + 1, Len(str))

\* buffer.slice(from, to) with 0 <= from, to: both ends are clamped to the length
Slice(buf, from, to) ==
    LET e == IF to > Len(buf) THEN Len(buf) ELSE to
    IN IF from >= e THEN <<>> ELSE SubSeq(buf, from + 1, e)

\* c repeated n times: "=".repeat(n), Buffer.alloc(n, c)
Repeat(c, n) == AsSeq([k \in 1..n |-> c])

Reverse(s) == AsSeq([k \in 1..Len(s) |-> s[Len(s) - k + 1]])

(***************************************************************************)
(* A for loop over lo..hi is an operator on the loop's state st that       *)
(* applies the loop's body to lo, lo+1, .., hi in this order.  It is       *)
(* written by halving the range, which keeps TLC's evaluation shallow; the *)
(* CHOOSE over a one-element set makes the first half's state a value      *)
(* before the second half starts.                                          *)
(***************************************************************************)

(***************************************************************************)
(* basetools: base58 (Bitcoin alphabet).                                   *)
(***************************************************************************)
ALPHABET ==
    <<"1","2","3","4","5","6","7","8","9",
      "A","B","C","D","E","F","G","H","J","K","L","M","N","P","Q","R","S",
      "T","U","V","W","X","Y","Z",
      "a","b","c","d","e","f","g","h","i","j","k","m","n","o","p","q","r",
      "s","t","u","v","w","x","y","z">>

\* the carry loop over j, st = <<digits so far, carry>>:
\* digits[j] += carry; carry = (digits[j] / 58) | 0; digits[j] %= 58
RECURSIVE B58CarryPass(_, _, _, _)
B58CarryPass(digits, st, lo, hi) ==
    IF lo > hi THEN st
    ELSE IF lo = hi
    THEN LET d == digits[lo] + st[2] IN <<Append(st[1], d % 58), d \div 58>>
    ELSE CHOOSE r \in {B58CarryPass(digits, left, (lo + hi) \div 2 + 1, hi) :
                          left \in {B58CarryPass(digits, st, lo, (lo + hi) \div 2)}} : TRUE

\* while (carry) { digits.push(carry % 58); carry = (carry / 58) | 0 }
RECURSIVE B58PushCarry(_, _)
B58PushCarry(digits, carry) ==
    IF carry = 0 THEN digits
    ELSE B58PushCarry(Append(digits, carry % 58), carry \div 58)

\* one round of the outer loop: every digit <<= 8, the byte added to digits[0]
B58AddByte(digits, byte) ==
    LET shifted == AsSeq([j \in 1..Len(digits) |-> Shl32(digits[j], 8)])
        added == [shifted EXCEPT ![1] = @ + byte]
        passed == B58CarryPass(added, <<<<>>, 0>>, 1, Len(added))
    IN B58PushCarry(passed[1], passed[2])

\* the outer loop over the bytes, st = digits
RECURSIVE B58Digits(_, _, _, _)
B58Digits(bytes, st, lo, hi) ==
    IF lo > hi THEN st
    ELSE IF lo = hi THEN B58AddByte(st, bytes[lo])
    ELSE CHOOSE r \in {B58Digits(bytes, left, (lo + hi) \div 2 + 1, hi) :
                          left \in {B58Digits(bytes, st, lo, (lo + hi) \div 2)}} : TRUE

\* while (digits[digits.length - 1] === 0) digits.pop(): ends on the empty
\* array too, where digits[-1] is undefined
RECURSIVE B58PopZeros(_)
B58PopZeros(digits) ==
    IF Len(digits) > 0 /\ digits[Len(digits)] = 0
    THEN B58PopZeros(SubSeq(digits, 1, Len(digits) - 1))
    ELSE digits

encodeBase58BTC(bytes) ==
    LET digits == B58PopZeros(B58Digits(bytes, <<0>>, 1, Len(bytes)))
    IN AsSeq([k \in 1..Len(digits) |-> ALPHABET[digits[Len(digits) - k + 1] + 1]])

\* the loop over j, st = <<bytes so far, value>>:
\* value += bytes[j] * 58; bytes[j] = value & 0xff; value >>= 8
RECURSIVE B58MulPass(_, _, _, _)
B58MulPass(bytes, st, lo, hi) ==
    IF lo > hi THEN st
    ELSE IF lo = hi
    THEN LET v == st[2] + bytes[lo] * 58 IN <<Append(st[1], And32(v, 255)), Shr32(v, 8)>>
    ELSE CHOOSE r \in {B58MulPass(bytes, left, (lo + hi) \div 2 + 1, hi) :
                          left \in {B58MulPass(bytes, st, lo, (lo + hi) \div 2)}} : TRUE

\* while (value > 0) { bytes.push(value & 0xff); value >>= 8 }
RECURSIVE B58PushValue(_, _)
B58PushValue(bytes, v) ==
    IF v > 0 THEN B58PushValue(Append(bytes, And32(v, 255)), Shr32(v, 8))
    ELSE bytes

\* one round of the loop over the characters; st is the bytes so far or the
\* error thrown, which ends the loop
B58AddChar(st, c) ==
    IF st.kind = "throw" THEN st
    ELSE LET v == IndexOf(ALPHABET, c)
         IN IF v = -1 THEN Throw("Invalid Base58Bitcoin string")
            ELSE LET passed == B58MulPass(st.val, <<<<>>, v>>, 1, Len(st.val))
                 IN Ok(B58PushValue(passed[1], passed[2]))

RECURSIVE B58Bytes(_, _, _, _)
B58Bytes(str, st, lo, hi) ==
    IF lo > hi THEN st
    ELSE IF lo = hi THEN B58AddChar(st, str[lo])
    ELSE CHOOSE r \in {B58Bytes(str, left, (lo + hi) \div 2 + 1, hi) :
                          left \in {B58Bytes(str, st, lo, (lo + hi) \div 2)}} : TRUE

decodeBase58BTC(str) ==
    LET r == B58Bytes(str, Ok(<<>>), 1, Len(str))
    IN IF r.kind = "throw" THEN r ELSE Ok(Reverse(r.val))

(***************************************************************************)
(* basetools: base32 (RFC 4648, no padding).                               *)
(***************************************************************************)
BASE32_ALPHABET ==
    <<"A","B","C","D","E","F","G","H","I","J","K","L","M","N","O","P","Q",
      "R","S","T","U","V","W","X","Y","Z","2","3","4","5","6","7">>

\* while (bits >= 5) { index = (value >>> (bits - 5)) & 31; result += ...; bits -= 5 }
\* st = <<value, bits, result>>
RECURSIVE B32Emit(_)
B32Emit(st) ==
    IF st[2] >= 5
    THEN B32Emit(<<st[1], st[2] - 5,
                   Append(st[3], BASE32_ALPHABET[And32(UShr32(st[1], st[2] - 5), 31) + 1])>>)
    ELSE st

\* the loop over the bytes: value = (value << 8) | data[i]; bits += 8; ...
RECURSIVE B32EncodeLoop(_, _, _, _)
B32EncodeLoop(bytes, st, lo, hi) ==
    IF lo > hi THEN st
    ELSE IF lo = hi
    THEN B32Emit(<<Or32(Shl32(st[1], 8), bytes[lo]), st[2] + 8, st[3]>>)
    ELSE CHOOSE r \in {B32EncodeLoop(bytes, left, (lo + hi) \div 2 + 1, hi) :
                          left \in {B32EncodeLoop(bytes, st, lo, (lo + hi) \div 2)}} : TRUE

encodeBase32RFC(bytes) ==
    LET st == B32EncodeLoop(bytes, <<0, 0, <<>>>>, 1, Len(bytes))
    IN IF st[2] > 0
       THEN Append(st[3], BASE32_ALPHABET[And32(Shl32(st[1], 5 - st[2]), 31) + 1])
       ELSE st[3]

\* one round of the loop over the characters, st = <<value, bits, result>>;
\* charIndex is -1 for a character outside the alphabet and is used as it is
B32AddChar(st, c) ==
    LET charIndex == IndexOf(BASE32_ALPHABET, c)
        v == Or32(Shl32(st[1], 5), charIndex)
        b == st[2] + 5
    IN IF b >= 8
       THEN <<v, b - 8, Append(st[3], ToUint8(And32(UShr32(v, b - 8), 255)))>>
       ELSE <<v, b, st[3]>>

RECURSIVE B32DecodeLoop(_, _, _, _)
B32DecodeLoop(encoded, st, lo, hi) ==
    IF lo > hi THEN st
    ELSE IF lo = hi THEN B32AddChar(st, encoded[lo])
    ELSE CHOOSE r \in {B32DecodeLoop(encoded, left, (lo + hi) \div 2 + 1, hi) :
                          left \in {B32DecodeLoop(encoded, st, lo, (lo + hi) \div 2)}} : TRUE

\* the slip of returning the whole allocated buffer of ceil(5n/8) bytes
decodeBase32RFC_NoSlice(encoded) ==
    LET r == B32DecodeLoop(encoded, <<0, 0, <<>>>>, 1, Len(encoded))[3]
    IN Ok(r \o Repeat(0, (Len(encoded) * 5 + 7) \div 8 - Len(r)))

\* the result buffer holds ceil(5n/8) bytes and index never passes floor(5n/8)
decodeBase32RFC(encoded) ==
    Ok(B32DecodeLoop(encoded, <<0, 0, <<>>>>, 1, Len(encoded))[3])

(***************************************************************************)
(* basetools: base64url.  Buffer's own base64 is Node's: toString pads     *)
(* with "=", Buffer.from(s, "base64") takes "+" and "-" for 62, "/" and    *)
(* "_" for 63, skips every other character and stops at the first "=".     *)
(***************************************************************************)
BASE64_ALPHABET ==
    <<"A","B","C","D","E","F","G","H","I","J","K","L","M","N","O","P","Q",
      "R","S","T","U","V","W","X","Y","Z",
      "a","b","c","d","e","f","g","h","i","j","k","l","m","n","o","p","q",
      "r","s","t","u","v","w","x","y","z",
      "0","1","2","3","4","5","6","7","8","9","+","/">>

ByteAt(bytes, k) == IF k <= Len(bytes) THEN bytes[k] ELSE 0

\* buffer.toString("base64"): character k of group g comes from bytes 3g+1..3g+3
BufferToBase64(bytes) ==
    AsSeq([k \in 1..(4 * ((Len(bytes) + 2) \div 3)) |->
        LET g == (k - 1) \div 4
            b1 == ByteAt(bytes, 3 * g + 1)
            b2 == ByteAt(bytes, 3 * g + 2)
            b3 == ByteAt(bytes, 3 * g + 3)
            pos == (k - 1) % 4
        IN IF pos = 0 THEN BASE64_ALPHABET[b1 \div 4 + 1]
           ELSE IF pos = 1 THEN BASE64_ALPHABET[(b1 % 4) * 16 + b2 \div 16 + 1]
           ELSE IF pos = 2
           THEN IF 3 * g + 2 > Len(bytes) THEN "="
                ELSE BASE64_ALPHABET[(b2 % 16) * 4 + b3 \div 64 + 1]
           ELSE IF 3 * g + 3 > Len(bytes) THEN "=" ELSE BASE64_ALPHABET[(b3 % 64) + 1]])

Unbase64(c) == IF c = "-" THEN 62 ELSE IF c = "_" THEN 63 ELSE IndexOf(BASE64_ALPHABET, c)

\* the characters before the first "="
UpToPadding(str) ==
    IF "=" \in Range(str)
    THEN SubSeq(str, 1, (CHOOSE k \in 1..Len(str) :
                            str[k] = "=" /\ \A m \in 1..(k - 1) : str[m] # "=") - 1)
    ELSE str

\* four sextets give three bytes; two or three left over give one or two
SextetsToBytes(six) ==
    AsSeq([k \in 1..((Len(six) * 6) \div 8) |->
        LET g == (k - 1) \div 3
            s1 == six[4 * g + 1]
            s2 == six[4 * g + 2]
            pos == (k - 1) % 3
        IN IF pos = 0 THEN s1 * 4 + s2 \div 16
           ELSE IF pos = 1 THEN (s2 % 16) * 16 + six[4 * g + 3] \div 4
           ELSE (six[4 * g + 3] % 4) * 64 + six[4 * g + 4]])

\* Buffer.from(str, "base64")
BufferFromBase64(str) ==
    LET legal == SelectSeq(UpToPadding(str), LAMBDA c : Unbase64(c) >= 0)
    IN SextetsToBytes(AsSeq([k \in 1..Len(legal) |-> Unbase64(legal[k])]))

\* str.replace(/from/g, to) for one character
ReplaceAll(str, from, to) == AsSeq([k \in 1..Len(str) |-> IF str[k] = from THEN to ELSE str[k]])

\* str.replace(/c/g, "")
RemoveAll(str, c) == SelectSeq(str, LAMBDA x : x # c)

encodeBase64URL(input) ==
    LET base64 == BufferToBase64(input)
    IN ReplaceAll(ReplaceAll(RemoveAll(base64, "="), "+", "-"), "/", "_")

\* the decoded buffer goes through a latin1 string, one character per byte and
\* the character's code the byte, and back through charCodeAt into a Uint8Array
decodeBase64URL(input) ==
    LET replaced == ReplaceAll(ReplaceAll(input, "-", "+"), "_", "/")
        paddingLength == Len(replaced) % 4
        padded == IF paddingLength > 0
                  THEN replaced \o Repeat("=", 4 - paddingLength) ELSE replaced
        latin1 == BufferFromBase64(padded)
    IN Ok(AsSeq([k \in 1..Len(latin1) |-> ToUint8(latin1[k])]))

(***************************************************************************)
(* tools: the size codec.  numToBuf's value is a JavaScript number: the    *)
(* first round of its loop reads the number given (digits), every later    *)
(* round the int32 that value >> 8 left.                                   *)
(***************************************************************************)
\* the digits without their high zero digits
StripHigh(digits) ==
    IF \E k \in 1..Len(digits) : digits[k] # 0
    THEN SubSeq(digits, 1, CHOOSE k \in 1..Len(digits) :
                              digits[k] # 0 /\ \A m \in (k + 1)..Len(digits) : digits[m] = 0)
    ELSE <<>>

DigitAt(digits, k) == IF k <= Len(digits) THEN digits[k] ELSE 0

\* ToInt32 of a number: its low 32 bits, read as signed
ToInt32(digits) ==
    DigitAt(digits, 1) + 256 * DigitAt(digits, 2) + 65536 * DigitAt(digits, 3)
    + 16777216 * (IF DigitAt(digits, 4) >= 128 THEN DigitAt(digits, 4) - 256
                  ELSE DigitAt(digits, 4))

\* a % n in JavaScript: the sign is the dividend's
JsRem(a, n) == IF a >= 0 THEN a % n ELSE -((-a) % n)

\* rounds 1.. of the for loop, st = <<value, buffer, lastIndex, left by break>>:
\* if (value === 0) { lastIndex = i - 1; break; }
\* buffer[i] = value % 256; value = value >> 8
RECURSIVE NumToBufLoop(_, _, _)
NumToBufLoop(st, lo, hi) ==
    IF lo > hi THEN st
    ELSE IF lo = hi
    THEN IF st[4] THEN st
         ELSE IF st[1] = 0 THEN <<st[1], st[2], lo - 1, TRUE>>
         ELSE <<Shr32(st[1], 8), [st[2] EXCEPT ![lo + 1] = ToUint8(JsRem(st[1], 256))],
                st[3], FALSE>>
    ELSE CHOOSE r \in {NumToBufLoop(left, (lo + hi) \div 2 + 1, hi) :
                          left \in {NumToBufLoop(st, lo, (lo + hi) \div 2)}} : TRUE

numToBuf(val, bufferSize) ==
    LET buffer == Repeat(0, bufferSize)
        lastIndex == bufferSize - 1
        st == IF 0 > lastIndex THEN <<0, buffer, lastIndex, FALSE>>
              ELSE IF val = <<>> THEN <<0, buffer, -1, TRUE>>
              ELSE NumToBufLoop(<<Shr32(ToInt32(val), 8), [buffer EXCEPT ![1] = val[1]],
                                  lastIndex, FALSE>>, 1, lastIndex)
    IN Slice(st[2], 0, st[3] + 1)

\* the bits of a number, lowest first
BitsOf(digits) ==
    AsSeq([k \in 1..(8 * Len(digits)) |-> (digits[(k - 1) \div 8 + 1] \div Pow2((k - 1) % 8)) % 2])

BitAt(bits, k) == IF k <= Len(bits) THEN bits[k] ELSE 0

DigitsOf(bits) ==
    AsSeq([k \in 1..((Len(bits) + 7) \div 8) |->
        BitAt(bits, 8 * k - 7) + 2 * BitAt(bits, 8 * k - 6) + 4 * BitAt(bits, 8 * k - 5)
        + 8 * BitAt(bits, 8 * k - 4) + 16 * BitAt(bits, 8 * k - 3)
        + 32 * BitAt(bits, 8 * k - 2) + 64 * BitAt(bits, 8 * k - 1)
        + 128 * BitAt(bits, 8 * k)])

\* bits + 1: the low ones become zeros and the first zero a one
Increment(bits) ==
    IF \E k \in 1..Len(bits) : bits[k] = 0
    THEN LET z == CHOOSE k \in 1..Len(bits) : bits[k] = 0 /\ \A m \in 1..(k - 1) : bits[m] = 1
         IN AsSeq([k \in 1..Len(bits) |-> IF k < z THEN 0 ELSE IF k = z THEN 1 ELSE bits[k]])
    ELSE Repeat(0, Len(bits)) \o <<1>>

\* Number(bigint): the nearest double, ties to even: 53 significant bits
NumberOfBigInt(digits) ==
    LET bits == StripHigh(BitsOf(digits))
        n == Len(bits)
    IN IF n <= 53 THEN StripHigh(digits)
       ELSE LET k == n - 53
                mant == SubSeq(bits, k + 1, n)
                sticky == \E j \in 1..(k - 1) : bits[j] = 1
                up == bits[k] = 1 /\ (sticky \/ mant[1] = 1)
            IN StripHigh(DigitsOf(Repeat(0, k) \o (IF up THEN Increment(mant) ELSE mant)))

\* the loop from the last byte down, st = the bigint's digits:
\* value = (value << 8n) + BigInt(buffer[i]): the byte becomes the lowest
\* digit and the digits so far move up by one; round k reads buffer[length - k]
RECURSIVE BufToNumLoop(_, _, _, _)
BufToNumLoop(buffer, st, lo, hi) ==
    IF lo > hi THEN st
    ELSE IF lo = hi THEN StripHigh(<<buffer[Len(buffer) - lo + 1]>> \o st)
    ELSE CHOOSE r \in {BufToNumLoop(buffer, left, (lo + hi) \div 2 + 1, hi) :
                          left \in {BufToNumLoop(buffer, st, lo, (lo + hi) \div 2)}} : TRUE

bufToNum(buffer) == NumberOfBigInt(BufToNumLoop(buffer, <<>>, 1, Len(buffer)))

(***************************************************************************)
(* The codec round trip: a byte sequence is encoded and the text decoded,  *)
(* or a given text is decoded.                                             *)
(***************************************************************************)
Codecs == {"base58btc", "base32rfc", "base64url"}

ByteSeqs == SeqsUpTo(ByteVals, MaxLen)
Texts == SeqsUpTo(TextChars, MaxTextLen)

CodecOff ==
    /\ cpc = "off" /\ codec = "none" /\ origin = "none"
    /\ data = <<>> /\ text = <<>> /\ decoded = None

SizeOff ==
    /\ spc = "off" /\ szValue = <<>> /\ szMax = 0 /\ szBuf = <<>> /\ szNum = <<>>

CrossOff ==
    /\ xpc = "off" /\ xorig = <<>> /\ xbytes = <<>> /\ xtext = <<>> /\ xtrail = <<>>

CidOff ==
    /\ pc = "off" /\ op = "none" /\ src = None /\ arg = None /\ cidBuf = <<>>
    /\ i = 0 /\ hashSize = 0 /\ stage = "none" /\ partial = None /\ ret = None

ProgressOff ==
    /\ fileSizeCounter = 0 /\ endProgressCounter = 0 /\ stdout = <<>> /\ call = None

StreamOff == stream = <<>> /\ hasher = <<>> /\ promise = None

InitCodec ==
    /\ SizeOff /\ CrossOff /\ CidOff /\ StreamOff /\ ProgressOff
    /\ codec \in Codecs
    /\ decoded = None
    /\ \/ origin = "bytes" /\ cpc = "encode" /\ data \in ByteSeqs /\ text = <<>>
       \/ origin = "text" /\ cpc = "decode" /\ data = <<>> /\ text \in Texts

Encoded(t) ==
    /\ cpc = "encode"
    /\ text' = t
    /\ cpc' = "decode"
    /\ UNCHANGED <<codec, origin, data, decoded, sizeVars, crossVars, cidVars, streamVars, progressVars>>

Decoded(r) ==
    /\ cpc = "decode"
    /\ decoded' = r
    /\ cpc' = "done"
    /\ UNCHANGED <<codec, origin, data, text, sizeVars, crossVars, cidVars, streamVars, progressVars>>

EncodeBase58BTC == codec = "base58btc" /\ Encoded(encodeBase58BTC(data))
DecodeBase58BTC == codec = "base58btc" /\ Decoded(decodeBase58BTC(text))
EncodeBase32RFC == codec = "base32rfc" /\ Encoded(encodeBase32RFC(data))
DecodeBase32RFC == codec = "base32rfc" /\ Decoded(decodeBase32RFC(text))
EncodeBase64URL == codec = "base64url" /\ Encoded(encodeBase64URL(data))
DecodeBase64URL == codec = "base64url" /\ Decoded(decodeBase64URL(text))

NextCodec ==
    \/ EncodeBase58BTC
    \/ DecodeBase58BTC
    \/ EncodeBase32RFC
    \/ DecodeBase32RFC
    \/ EncodeBase64URL
    \/ DecodeBase64URL

SpecCodec == InitCodec /\ [][NextCodec]_vars

\* the alphabet a decoder reads
AlphabetOf(c) ==
    IF c = "base58btc" THEN Range(ALPHABET)
    ELSE IF c = "base32rfc" THEN Range(BASE32_ALPHABET)
    ELSE (Range(BASE64_ALPHABET) \ {"+", "/"}) \cup {"-", "_"}

\* C2: base58 round trip: decoding the base58 text of any byte sequence, the
\* empty one and those starting with 0x00 bytes included, gives the sequence back.
C2_Base58RoundTrip ==
    (cpc = "done" /\ codec = "base58btc" /\ origin = "bytes") => decoded = Ok(data)

\* C3: base32 and base64url round trip: decoding the text of any byte sequence
\* of any length gives the sequence back.
C3_Base32Base64RoundTrip ==
    (cpc = "done" /\ codec \in {"base32rfc", "base64url"} /\ origin = "bytes")
        => decoded.kind = "value" /\ decoded.val = data

C3_Witness ==
    /\ cpc = "done" /\ origin = "bytes" /\ codec = "base32rfc"
    /\ Len(data) = 6 /\ data[1] = 255 /\ data[6] = 165
    /\ decoded = Ok(data)

\* C6: every decoder fails with an error on a text that holds a character
\* outside its alphabet.
C6_DecodersRejectOutOfAlphabet ==
    (cpc = "done" /\ origin = "text" /\ \E k \in 1..Len(text) : text[k] \notin AlphabetOf(codec))
        => decoded.kind = "throw"

(***************************************************************************)
(* The size round trip: a size is written with numToBuf and the bytes read *)
(* back with bufToNum.                                                     *)
(***************************************************************************)
bufSize == 16            \* generateCIDFromMHash's buffer size for the file size
MaxSizeDigits == 5       \* sizes tried have up to this many base-256 digits
MaxBufferSize == 17      \* largest bufferSize tried

SizeDigitVals == {0, 1, 128}

\* sizes below 2^53: every digit sequence up to the bound, and 2^53 - 1
SizeVals ==
    {d \in SeqsUpTo(SizeDigitVals, MaxSizeDigits) : Len(d) = 0 \/ d[Len(d)] # 0}
    \cup {<<255, 255, 255, 255, 255, 255, 31>>, <<255, 255, 255, 127>>, <<0, 255>>}

InitSize ==
    /\ CodecOff /\ CrossOff /\ CidOff /\ StreamOff /\ ProgressOff
    /\ spc = "call"
    /\ szValue \in SizeVals
    /\ szMax \in 0..MaxBufferSize
    /\ szBuf = <<>>
    /\ szNum = <<>>

NumToBuf ==
    /\ spc = "call"
    /\ szBuf' = numToBuf(szValue, szMax)
    /\ spc' = "encoded"
    /\ UNCHANGED <<szValue, szMax, szNum, codecVars, crossVars, cidVars, streamVars, progressVars>>

BufToNum ==
    /\ spc = "encoded"
    /\ szNum' = bufToNum(szBuf)
    /\ spc' = "done"
    /\ UNCHANGED <<szValue, szMax, szBuf, codecVars, crossVars, cidVars, streamVars, progressVars>>

NextSize ==
    \/ NumToBuf
    \/ BufToNum

SpecSize == InitSize /\ [][NextSize]_vars

\* C4: size round trip: for every size s in [0, 2^53), bufToNum(numToBuf(s, 16))
\* is s.
C4_SizeRoundTrip ==
    (spc = "done" /\ szMax = bufSize) => szNum = szValue

\* C5: minimal size encoding: numToBuf(v, maxBytes) has at most maxBytes bytes,
\* is empty when v is 0 and otherwise (for a v that fits maxBytes bytes, so that
\* nothing is cut off) ends in a non-zero byte; numToBuf(0, N) is empty and
\* numToBuf(256, 16) has 2 bytes.
C5_MinimalSizeEncoding ==
    spc \in {"encoded", "done"} =>
        /\ Len(szBuf) <= szMax
        /\ szValue = <<>> => Len(szBuf) = 0
        /\ (szValue # <<>> /\ Len(szValue) <= szMax)
               => (Len(szBuf) > 0 /\ szBuf[Len(szBuf)] # 0)
        /\ (szValue = <<0, 1>> /\ szMax = bufSize) => Len(szBuf) = 2

(***************************************************************************)
(* tools: the three text forms of a CID.                                   *)
(***************************************************************************)
\* cid[0]: undefined on the empty string
First(cid) == IF Len(cid) > 0 THEN cid[1] ELSE "undefined"

\* /[A-Z]/.test(str) and /[a-z]/.test(str)
HasUpper(str) == \E k \in 1..Len(str) : str[k] \in Range(UpperLetters)
HasLower(str) == \E k \in 1..Len(str) : str[k] \in Range(LowerLetters)

\* the slip of leaving the prefix character out
encodeCIDWithPrefixZ_NoPrefix(bytes) == encodeBase58BTC(bytes)

\* both branches on bytes.length do the same
encodeCIDWithPrefixZ(bytes) == <<"z">> \o encodeBase58BTC(bytes)

\* the slip of decoding the text with its prefix character
decodeCIDWithPrefixZ_KeepPrefix(cid) == decodeBase58BTC(cid)

decodeCIDWithPrefixZ(cid) ==
    IF First(cid) = "z" THEN decodeBase58BTC(Substring(cid, 1))
    ELSE decodeBase58BTC(cid)

encodeCIDWithPrefixU(bytes) == <<"u">> \o encodeBase64URL(bytes)

decodeCIDWithPrefixU(cid) ==
    IF First(cid) = "u" THEN decodeBase64URL(Substring(cid, 1))
    ELSE decodeBase64URL(cid)

encodeCIDWithPrefixB(bytes) == <<"b">> \o toLowerCase(encodeBase32RFC(bytes))

\* the slip of leaving the text's case as it is
decodeCIDWithPrefixB_NoUpper(cid) ==
    LET cid1 == IF First(cid) = "B" /\ HasUpper(cid)
                THEN Substring(toLowerCase(cid), 1) ELSE cid
        cid2 == IF First(cid1) = "b" /\ HasLower(cid1) THEN Substring(cid1, 1) ELSE cid1
    IN decodeBase32RFC(cid2)

decodeCIDWithPrefixB(cid) ==
    LET cid1 == IF First(cid) = "B" /\ HasUpper(cid)
                THEN Substring(toLowerCase(cid), 1) ELSE cid
        cid2 == IF First(cid1) = "b" /\ HasLower(cid1) THEN Substring(cid1, 1) ELSE cid1
        cid3 == IF HasLower(cid2) THEN toUpperCase(cid2) ELSE cid2
    IN decodeBase32RFC(cid3)

(***************************************************************************)
(* tools: the converters from one text form to another.  Each drops the    *)
(* first character, decodes what is left with the source codec and encodes *)
(* the bytes with the target codec; a decoder's error passes through.      *)
(***************************************************************************)
\* str.replace(/=+$/, '')
StripTrailingPad(str) ==
    LET n == CHOOSE m \in 0..Len(str) :
                 /\ \A k \in (m + 1)..Len(str) : str[k] = "="
                 /\ (m > 0 => str[m] # "=")
    IN SubSeq(str, 1, n)

\* the slip of leaving the base32 body in upper case
convertB58btcToB32rfcCid_Upper(cid) ==
    LET bytes == decodeBase58BTC(Substring(cid, 1))
    IN IF bytes.kind = "throw" THEN bytes
       ELSE Ok(<<"b">> \o StripTrailingPad(encodeBase32RFC(bytes.val)))

convertB58btcToB32rfcCid(cid) ==
    LET bytes == decodeBase58BTC(Substring(cid, 1))
    IN IF bytes.kind = "throw" THEN bytes
       ELSE Ok(<<"b">> \o toLowerCase(StripTrailingPad(encodeBase32RFC(bytes.val))))

convertB32rfcToB58btcCid(cid) ==
    LET bytes == decodeBase32RFC(toUpperCase(Substring(cid, 1)))
    IN IF bytes.kind = "throw" THEN bytes
       ELSE Ok(<<"z">> \o encodeBase58BTC(bytes.val))

convertB64urlToB58btcCid(cid) ==
    LET bytes == decodeBase64URL(Substring(cid, 1))
    IN IF bytes.kind = "throw" THEN bytes
       ELSE Ok(<<"z">> \o encodeBase58BTC(bytes.val))

convertB58btcToB64urlCid(cid) ==
    LET bytes == decodeBase58BTC(Substring(cid, 1))
    IN IF bytes.kind = "throw" THEN bytes
       ELSE Ok(<<"u">> \o encodeBase64URL(bytes.val))

\* Buffer.from(text, 'base64url') is the base64 reader
convertB64urlToB32rfcCid(cid) ==
    LET bytes == BufferFromBase64(Substring(cid, 1))
    IN Ok(<<"b">> \o toLowerCase(StripTrailingPad(encodeBase32RFC(bytes))))

convertB32rfcToB64urlCid(cid) ==
    LET bytes == decodeBase32RFC(toUpperCase(Substring(cid, 1)))
    IN IF bytes.kind = "throw" THEN bytes
       ELSE Ok(<<"u">> \o encodeBase64URL(bytes.val))

(***************************************************************************)
(* tools: the directory-friendly conversion and the subdomain of a URL.    *)
(***************************************************************************)
\* str.startsWith(pre)
StartsWith(str, pre) == Len(str) >= Len(pre) /\ SubSeq(str, 1, Len(pre)) = pre

HttpScheme == <<"h", "t", "t", "p", ":", "/", "/">>
HttpsScheme == <<"h", "t", "t", "p", "s", ":", "/", "/">>

\* the longest run of characters other than "." and "/" str begins with
LabelRun(str) ==
    LET n == CHOOSE m \in 0..Len(str) :
                 /\ \A k \in 1..m : str[k] \notin {".", "/"}
                 /\ (m < Len(str) => str[m + 1] \in {".", "/"})
    IN SubSeq(str, 1, n)

\* [^./]+ followed by \. at the start of str: the label, or null
LabelBeforeDot(str) ==
    LET run == LabelRun(str)
    IN IF Len(run) > 0 /\ Len(str) > Len(run) /\ str[Len(run) + 1] = "."
       THEN Ok(run) ELSE None

\* url.match(/^(?:https?:\/\/)?([^./]+)\./i): the scheme is tried first and,
\* when the rest does not match, the text is matched without a scheme
getSubdomainFromUrl(url) ==
    LET lower == toLowerCase(url)
        rest == IF StartsWith(lower, HttpsScheme) THEN Substring(url, Len(HttpsScheme))
                ELSE IF StartsWith(lower, HttpScheme) THEN Substring(url, Len(HttpScheme))
                ELSE url
        withScheme == LabelBeforeDot(rest)
    IN IF withScheme.kind = "value" THEN withScheme ELSE LabelBeforeDot(url)

convertDownloadDirectoryInputCid(cid) ==
    IF StartsWith(cid, <<"h", "t", "t", "p">>)
    THEN LET subdomain == getSubdomainFromUrl(cid)
         IN IF subdomain.kind = "value" THEN subdomain
            ELSE Throw("Invalid CID input address")
    ELSE LET r1 == IF First(cid) = "z" THEN convertB58btcToB32rfcCid(cid) ELSE None
             r2 == IF r1.kind = "throw" THEN r1
                   ELSE IF First(cid) = "u" THEN convertB64urlToB32rfcCid(cid) ELSE r1
             r3 == IF r2.kind = "throw" THEN r2
                   ELSE IF First(cid) = "b" THEN Ok(cid) ELSE r2
         IN IF r3.kind = "none" THEN Throw("Invalid CID input address") ELSE r3

(***************************************************************************)
(* blake3tools: packing a CID and taking it apart.  An operation that      *)
(* reaches the search loop of extractMHashFromCID or extractB3hashFromCID  *)
(* gives LoopOn: the buffer the loop runs on and the loop it is; the loop  *)
(* itself is run by the actions LoopStep and LoopExit below.               *)
(***************************************************************************)
cidTypeRaw == 38              \* 0x26
cidTypeMetadataMedia == 197   \* 0xc5
mhashBlake3Default == 31      \* 0x1f

InvalidCID == Throw("Invalid CID input address")

LoopOn(bytes, st) == [kind |-> "loop", cid |-> bytes, stage |-> st]

HexDigits == <<"0","1","2","3","4","5","6","7","8","9","a","b","c","d","e","f">>

\* buffer.toString("hex")
Hex(bytes) ==
    AsSeq([k \in 1..(2 * Len(bytes)) |->
        IF k % 2 = 1 THEN HexDigits[bytes[(k + 1) \div 2] \div 16 + 1]
        ELSE HexDigits[(bytes[k \div 2] % 16) + 1]])

\* str.replace(c, ""): the first c only
RemoveFirst(str, c) ==
    IF c \in Range(str)
    THEN SubSeq(str, 1, IndexOf(str, c)) \o SubSeq(str, IndexOf(str, c) + 2, Len(str))
    ELSE str

\* the slip of leaving the hash function's id out
generateMHashFromB3hash_NoId(b3hash) == b3hash

generateMHashFromB3hash(b3hash) == <<mhashBlake3Default>> \o b3hash

extractB3hashFromMHash(mHash) == Slice(mHash, 1, Len(mHash))

\* fileSize is the size fs.statSync gives for filePath
generateCIDFromMHash(mHash, fileSize) ==
    <<cidTypeRaw>> \o mHash \o numToBuf(fileSize, bufSize)

extractMHashFromCID(cid) == LoopOn(cid, "mhash")

\* the slip of taking the size from offset 33 whatever the length
extractRawSizeFromCID_Slice33(cid) == bufToNum(Slice(cid, 33, Len(cid)))

extractRawSizeFromCID(cid) ==
    bufToNum(Slice(cid, IF Len(cid) >= 34 THEN 34 ELSE 33, Len(cid)))

extractB3hashFromCID(cid) == LoopOn(cid, "b3hash")

\* the slip of keeping the base64 alphabet
convertMHashToB64url_Plain(mHash) == RemoveFirst(BufferToBase64(mHash), "=")

convertMHashToB64url(mHash) ==
    RemoveFirst(ReplaceAll(ReplaceAll(BufferToBase64(mHash), "+", "-"), "/", "_"), "=")

\* the decoder the first character selects; None when it selects none
DecodeByPrefix(cid) ==
    IF First(cid) = "z" THEN decodeCIDWithPrefixZ(cid)
    ELSE IF First(cid) = "u" THEN decodeCIDWithPrefixU(cid)
    ELSE IF First(cid) = "b" THEN decodeCIDWithPrefixB(cid)
    ELSE None

convertS5CidToMHash(cid) ==
    LET cidBytes == DecodeByPrefix(cid)
    IN IF cidBytes = None THEN InvalidCID
       ELSE IF cidBytes.kind = "throw" THEN cidBytes
       ELSE extractMHashFromCID(cidBytes.val)

convertS5CidToCIDBytes(cid) ==
    LET cidBytes == DecodeByPrefix(cid)
    IN IF cidBytes = None THEN InvalidCID ELSE cidBytes

\* the slip of testing the buffer in place of the size
checkRawSizeIsNotNull_Buffer(cid) ==
    LET cidBytes == convertS5CidToCIDBytes(cid)
    IN IF cidBytes.kind = "throw" THEN cidBytes ELSE Ok(cidBytes.val # <<>>)

checkRawSizeIsNotNull(cid) ==
    LET cidBytes == convertS5CidToCIDBytes(cid)
    IN IF cidBytes.kind = "throw" THEN cidBytes
       ELSE Ok(extractRawSizeFromCID(cidBytes.val) # <<>>)

convertS5CidToMHashB64url(cid) ==
    LET cidBytes == convertS5CidToCIDBytes(cid)
    IN IF cidBytes.kind = "throw" THEN cidBytes
       ELSE IF extractRawSizeFromCID(cidBytes.val) # <<>> THEN convertS5CidToMHash(cid)
       ELSE Ok(<<>>)

\* the slip of not looking at the size
convertS5CidToB3hashHex_NoSizeTest(cid) ==
    LET cidBytes == DecodeByPrefix(cid)
    IN IF cidBytes = None THEN InvalidCID
       ELSE IF cidBytes.kind = "throw" THEN cidBytes
       ELSE extractB3hashFromCID(cidBytes.val)

convertS5CidToB3hashHex(cid) ==
    LET cidBytes == DecodeByPrefix(cid)
    IN IF cidBytes = None THEN InvalidCID
       ELSE IF cidBytes.kind = "throw" THEN cidBytes
       ELSE IF extractRawSizeFromCID(cidBytes.val) # <<>>
       THEN extractB3hashFromCID(cidBytes.val)
       ELSE InvalidCID

\* the placeholder string, kept as one piece of text
NotPossible == <<"It is not possible!">>

\* getAllInfosFromCid up to its call of convertS5CidToMHashB64url: the report
\* so far, and whether the call is made
GetAllInfosHead(cid) ==
    LET cidBytes == DecodeByPrefix(cid)
    IN IF cidBytes = None THEN InvalidCID
       ELSE IF cidBytes.kind = "throw" THEN cidBytes
       ELSE LET b3FilesSize == extractRawSizeFromCID(cidBytes.val)
            IN Ok([zcid |-> encodeCIDWithPrefixZ(cidBytes.val),
                   ucid |-> encodeCIDWithPrefixU(cidBytes.val),
                   bcid |-> encodeCIDWithPrefixB(cidBytes.val),
                   mhashb64url |-> NotPossible,
                   b3hashhex |-> NotPossible,
                   b3filesize |-> b3FilesSize])

(***************************************************************************)
(* The inputs of the CID operations.                                       *)
(***************************************************************************)
Digests == {Repeat(0, 32), Repeat(255, 32), AsSeq([k \in 1..32 |-> (k * 37) % 256])}

CidTypes == {cidTypeRaw, cidTypeMetadataMedia}

\* size fields of 0 to 16 bytes: minimal ones, ones of zero bytes, 2^53 - 1,
\* 2^61 + 1 and sixteen 0xff
SizeFields ==
    {<<>>, <<5>>, <<0, 1>>, <<0, 0>>, <<255, 255, 255, 255, 255, 255, 31>>,
     <<1, 0, 0, 0, 0, 0, 0, 32>>, Repeat(255, 16)}

ValidCids ==
    {<<t, mhashBlake3Default>> \o d \o s : t \in CidTypes, d \in Digests, s \in SizeFields}

(***************************************************************************)
(* A CID through its text forms: the bytes are encoded with one prefix,    *)
(* the text decoded with convertS5CidToCIDBytes, and the result encoded    *)
(* and decoded again.                                                      *)
(***************************************************************************)
MaxTrail == 2            \* text forms a CID is taken through in turn

InitCross ==
    /\ CodecOff /\ SizeOff /\ CidOff /\ StreamOff /\ ProgressOff
    /\ xpc = "bytes"
    /\ xorig \in ValidCids
    /\ xbytes = xorig
    /\ xtext = <<>>
    /\ xtrail = <<>>

XEncoded(p, t) ==
    /\ xpc = "bytes"
    /\ Len(xtrail) < MaxTrail
    /\ xtext' = t
    /\ xtrail' = Append(xtrail, p)
    /\ xpc' = "text"
    /\ UNCHANGED <<xorig, xbytes, codecVars, sizeVars, cidVars, streamVars, progressVars>>

XEncodeCIDWithPrefixZ == XEncoded("z", encodeCIDWithPrefixZ(xbytes))
XEncodeCIDWithPrefixU == XEncoded("u", encodeCIDWithPrefixU(xbytes))
XEncodeCIDWithPrefixB == XEncoded("b", encodeCIDWithPrefixB(xbytes))

XConvertS5CidToCIDBytes ==
    /\ xpc = "text"
    /\ LET cidBytes == convertS5CidToCIDBytes(xtext)
       IN IF cidBytes.kind = "value"
          THEN xbytes' = cidBytes.val /\ xpc' = "bytes"
          ELSE xbytes' = xbytes /\ xpc' = "failed"
    /\ UNCHANGED <<xorig, xtext, xtrail, codecVars, sizeVars, cidVars, streamVars, progressVars>>

NextCross ==
    \/ XEncodeCIDWithPrefixZ
    \/ XEncodeCIDWithPrefixU
    \/ XEncodeCIDWithPrefixB
    \/ XConvertS5CidToCIDBytes

SpecCross == InitCross /\ [][NextCross]_vars

\* C1: cross-form equivalence: for every valid CID c and prefixes p1, p2,
\* decoding the p1 text of c gives c, and encoding that with p2 and decoding
\* again gives c; no decoding fails.
C1_CrossFormEquivalence ==
    /\ xpc # "failed"
    /\ xpc = "bytes" => xbytes = xorig

C1_Witness ==
    /\ xpc = "bytes" /\ xtrail = <<"z", "b">>
    /\ Len(xorig) = 50 /\ xbytes = xorig

(***************************************************************************)
(* A call of a blake3tools operation.  The input is a file (its digest and *)
(* size), a buffer or a text; a buffer can first be put in a text form.    *)
(* The search loop of extractMHashFromCID and extractB3hashFromCID runs    *)
(* one round per LoopStep; MaxLoopIter caps its counter.                   *)
(***************************************************************************)
MaxLoopIter == 20        \* rounds of the search loop followed

FileSizes ==
    {<<>>, <<5>>, <<0, 1>>, <<0, 0, 0, 128>>, <<0, 0, 0, 0, 1>>,
     <<255, 255, 255, 255, 255, 255, 31>>}

\* buffers that are no CID: too short, or 34 zero bytes
OtherBuffers ==
    {<<>>, <<cidTypeRaw>>, <<cidTypeRaw, mhashBlake3Default>> \o Repeat(0, 31),
     <<cidTypeRaw, mhashBlake3Default>> \o Repeat(255, 31), Repeat(0, 34)}

\* texts that are no form of a CID
OtherTexts ==
    {<<>>, <<"B", "A">>, <<"x">>, <<"1", "z">>, <<"Z", "b">>, <<"!">>,
     <<"z">>, <<"u">>, <<"b">>, <<"z", "0">>, <<"u", "!">>, <<"b", "1">>}

InitCid ==
    /\ CodecOff /\ SizeOff /\ CrossOff /\ StreamOff /\ ProgressOff
    /\ pc = "idle"
    /\ op = "none"
    /\ \/ \E d \in Digests, s \in FileSizes : arg = [kind |-> "file", digest |-> d, size |-> s]
       \/ \E b \in ValidCids \cup OtherBuffers : arg = [kind |-> "bytes", val |-> b]
       \/ \E t \in OtherTexts : arg = [kind |-> "text", val |-> t, form |-> "given"]
    /\ src = arg
    /\ cidBuf = <<>> /\ i = 0 /\ hashSize = 0 /\ stage = "none"
    /\ partial = None /\ ret = None

\* the call of operation name came to r: a value, an error, or the search loop
Called(name, r) ==
    /\ op' = name
    /\ IF r.kind = "loop"
       THEN /\ pc' = "loop"
            /\ cidBuf' = r.cid
            /\ i' = 0
            /\ hashSize' = Len(r.cid) - 1
            /\ stage' = r.stage
            /\ ret' = ret
       ELSE /\ pc' = "done"
            /\ ret' = r
            /\ UNCHANGED <<cidBuf, i, hashSize, stage>>
    /\ UNCHANGED <<src, arg, codecVars, sizeVars, crossVars, streamVars, progressVars>>

GenerateMHashFromB3hash ==
    /\ pc = "idle" /\ arg.kind = "file"
    /\ arg' = [kind |-> "mhash", mHash |-> generateMHashFromB3hash(arg.digest),
               size |-> arg.size]
    /\ UNCHANGED <<pc, op, src, cidBuf, i, hashSize, stage, partial, ret,
                   codecVars, sizeVars, crossVars, streamVars, progressVars>>

GenerateCIDFromMHash ==
    /\ pc = "idle" /\ arg.kind = "mhash"
    /\ Called("generateCIDFromMHash", Ok(generateCIDFromMHash(arg.mHash, arg.size)))
    /\ UNCHANGED partial

\* the caller passes the packed CID on as a buffer
UsePackedCID ==
    /\ pc = "done" /\ op = "generateCIDFromMHash"
    /\ pc' = "idle"
    /\ op' = "none"
    /\ arg' = [kind |-> "bytes", val |-> ret.val]
    /\ ret' = None
    /\ UNCHANGED <<src, cidBuf, i, hashSize, stage, partial,
                   codecVars, sizeVars, crossVars, streamVars, progressVars>>

\* form is the encoder the text comes from
TextOf(p, t) ==
    /\ pc = "idle" /\ arg.kind = "bytes"
    /\ arg' = [kind |-> "text", val |-> t, form |-> p]
    /\ UNCHANGED <<pc, op, src, cidBuf, i, hashSize, stage, partial, ret,
                   codecVars, sizeVars, crossVars, streamVars, progressVars>>

EncodeCIDWithPrefixZ == arg.kind = "bytes" /\ TextOf("z", encodeCIDWithPrefixZ(arg.val))
EncodeCIDWithPrefixU == arg.kind = "bytes" /\ TextOf("u", encodeCIDWithPrefixU(arg.val))
EncodeCIDWithPrefixB == arg.kind = "bytes" /\ TextOf("b", encodeCIDWithPrefixB(arg.val))

ExtractMHashFromCID ==
    /\ pc = "idle" /\ arg.kind = "bytes"
    /\ Called("extractMHashFromCID", extractMHashFromCID(arg.val))
    /\ UNCHANGED partial

ExtractRawSizeFromCID ==
    /\ pc = "idle" /\ arg.kind = "bytes"
    /\ Called("extractRawSizeFromCID", Ok(extractRawSizeFromCID(arg.val)))
    /\ UNCHANGED partial

ExtractB3hashFromCID ==
    /\ pc = "idle" /\ arg.kind = "bytes"
    /\ Called("extractB3hashFromCID", extractB3hashFromCID(arg.val))
    /\ UNCHANGED partial

ConvertS5CidToMHash ==
    /\ pc = "idle" /\ arg.kind = "text"
    /\ Called("convertS5CidToMHash", convertS5CidToMHash(arg.val))
    /\ UNCHANGED partial

ConvertS5CidToCIDBytes ==
    /\ pc = "idle" /\ arg.kind = "text"
    /\ Called("convertS5CidToCIDBytes", convertS5CidToCIDBytes(arg.val))
    /\ UNCHANGED partial

CheckRawSizeIsNotNull ==
    /\ pc = "idle" /\ arg.kind = "text"
    /\ Called("checkRawSizeIsNotNull", checkRawSizeIsNotNull(arg.val))
    /\ UNCHANGED partial

ConvertS5CidToMHashB64url ==
    /\ pc = "idle" /\ arg.kind = "text"
    /\ Called("convertS5CidToMHashB64url", convertS5CidToMHashB64url(arg.val))
    /\ UNCHANGED partial

ConvertS5CidToB3hashHex ==
    /\ pc = "idle" /\ arg.kind = "text"
    /\ Called("convertS5CidToB3hashHex", convertS5CidToB3hashHex(arg.val))
    /\ UNCHANGED partial

\* with a size of 0 the report is returned as it is; otherwise
\* convertS5CidToMHashB64url is called first
GetAllInfosFromCid ==
    /\ pc = "idle" /\ arg.kind = "text"
    /\ LET head == GetAllInfosHead(arg.val)
       IN IF head.kind = "throw" \/ head.val.b3filesize = <<>>
          THEN Called("getAllInfosFromCid", head) /\ UNCHANGED partial
          ELSE /\ Called("getAllInfosFromCid", convertS5CidToMHashB64url(arg.val))
               /\ partial' = head.val

\* while (hashSize !== 33) { i++; hashSize = cid.length - i }
LoopStep ==
    /\ pc = "loop"
    /\ hashSize # 33
    /\ i < MaxLoopIter
    /\ i' = i + 1
    /\ hashSize' = Len(cidBuf) - (i + 1)
    /\ UNCHANGED <<pc, op, src, arg, cidBuf, stage, partial, ret,
                   codecVars, sizeVars, crossVars, streamVars, progressVars>>

\* const mHash = cid.slice(cidTypeSize, cidTypeSize + hashSize)
LoopMHash == Slice(cidBuf, 1, 1 + hashSize)

\* what the operation makes of the multihash the loop found
AfterLoop(name, mHash) ==
    IF name \in {"extractMHashFromCID", "convertS5CidToMHash"} THEN Ok(mHash)
    ELSE IF name = "extractB3hashFromCID" THEN Ok(extractB3hashFromMHash(mHash))
    ELSE IF name = "convertS5CidToMHashB64url" THEN Ok(convertMHashToB64url(mHash))
    ELSE Ok(Hex(extractB3hashFromMHash(mHash)))

LoopExit ==
    /\ pc = "loop"
    /\ hashSize = 33
    /\ op # "getAllInfosFromCid"
    /\ ret' = AfterLoop(op, LoopMHash)
    /\ pc' = "done"
    /\ UNCHANGED <<op, src, arg, cidBuf, i, hashSize, stage, partial,
                   codecVars, sizeVars, crossVars, streamVars, progressVars>>

\* getAllInfosFromCid has its mhashb64url and calls convertS5CidToB3hashHex
GetAllInfosMHashDone ==
    /\ pc = "loop"
    /\ hashSize = 33
    /\ op = "getAllInfosFromCid" /\ stage = "mhash"
    /\ partial' = [partial EXCEPT !.mhashb64url = convertMHashToB64url(LoopMHash)]
    /\ Called("getAllInfosFromCid", convertS5CidToB3hashHex(arg.val))

\* getAllInfosFromCid has its b3hashhex and returns the report
GetAllInfosB3hashDone ==
    /\ pc = "loop"
    /\ hashSize = 33
    /\ op = "getAllInfosFromCid" /\ stage = "b3hash"
    /\ ret' = Ok([partial EXCEPT !.b3hashhex = Hex(extractB3hashFromMHash(LoopMHash))])
    /\ pc' = "done"
    /\ UNCHANGED <<op, src, arg, cidBuf, i, hashSize, stage, partial,
                   codecVars, sizeVars, crossVars, streamVars, progressVars>>

NextCid ==
    \/ GenerateMHashFromB3hash
    \/ GenerateCIDFromMHash
    \/ UsePackedCID
    \/ EncodeCIDWithPrefixZ
    \/ EncodeCIDWithPrefixU
    \/ EncodeCIDWithPrefixB
    \/ ExtractMHashFromCID
    \/ ExtractRawSizeFromCID
    \/ ExtractB3hashFromCID
    \/ ConvertS5CidToMHash
    \/ ConvertS5CidToCIDBytes
    \/ CheckRawSizeIsNotNull
    \/ ConvertS5CidToMHashB64url
    \/ ConvertS5CidToB3hashHex
    \/ GetAllInfosFromCid
    \/ LoopStep
    \/ LoopExit
    \/ GetAllInfosMHashDone
    \/ GetAllInfosB3hashDone

SpecCid == InitCid /\ [][NextCid]_vars

TextOps ==
    {"convertS5CidToCIDBytes", "convertS5CidToMHash", "convertS5CidToMHashB64url",
     "convertS5CidToB3hashHex", "checkRawSizeIsNotNull", "getAllInfosFromCid"}

ByteOps == {"extractMHashFromCID", "extractRawSizeFromCID", "extractB3hashFromCID"}

\* C7: unknown prefix is rejected: on a text whose first character is not z, u
\* or b (the empty text too) each of the six text operations fails with the
\* invalid-CID error and returns nothing; on a text that starts with z, u or b
\* none of them fails with that error.
C7_UnknownPrefixRejected ==
    op \in TextOps =>
        IF First(arg.val) \in {"z", "u", "b"} THEN ret # InvalidCID
        ELSE pc = "done" /\ ret = InvalidCID

\* C8: short binary CIDs are rejected: on a buffer of fewer than 34 bytes each
\* of extractMHashFromCID, extractRawSizeFromCID and extractB3hashFromCID fails
\* with an error and returns no multihash, size or digest.
C8_ShortCidsRejected ==
    (op \in ByteOps /\ Len(arg.val) < 34) => (pc = "done" /\ ret.kind = "throw")

\* the size field's value is below 2^53
Below2p53(bytes) ==
    Len(StripHigh(bytes)) < 7 \/ (Len(StripHigh(bytes)) = 7 /\ StripHigh(bytes)[7] < 32)

\* what the three extractions give on c, when sizeOk admits c's size field
Unpacked(c, sizeOk) ==
    IF op = "extractMHashFromCID" THEN ret = Ok(SubSeq(c, 2, 34))
    ELSE IF op = "extractB3hashFromCID" THEN ret = Ok(SubSeq(c, 3, 34))
    ELSE sizeOk => ret = Ok(StripHigh(SubSeq(c, 35, Len(c))))

C10_PackedCidShape ==
    (pc = "done" /\ op = "generateCIDFromMHash") =>
        /\ ret.kind = "value"
        /\ Len(ret.val) >= 34 /\ Len(ret.val) <= 50
        /\ ret.val[1] = 38 /\ ret.val[2] = 31
        /\ SubSeq(ret.val, 3, 34) = src.digest
        /\ SubSeq(ret.val, 35, Len(ret.val)) = numToBuf(src.size, 16)
        /\ (Len(ret.val) = 34) <=> (src.size = <<>>)

C10_Witness ==
    /\ pc = "done" /\ op = "generateCIDFromMHash"
    /\ src.size = <<0, 1>> /\ Len(ret.val) = 36
    /\ ret.val[1] = 38 /\ ret.val[36] = 1

\* the file of the scenario: a digest of 32 zero bytes and a size of 5
ScenarioFile == [kind |-> "file", digest |-> Repeat(0, 32), size |-> <<5>>]

\* the CID the scenario expects: the raw type, the BLAKE3 id, the digest, 0x05
ScenarioCid == <<38, 31>> \o Repeat(0, 32) \o <<5>>

\* what the scenario gives, the packed CID having n bytes
Scenario(n) ==
    src = ScenarioFile =>
        /\ (pc = "done" /\ op = "generateCIDFromMHash")
               => (Len(ret.val) = n /\ ret.val = ScenarioCid)
        /\ (arg.kind = "text" /\ arg.form = "z") => arg.val[1] = "z"
        /\ (arg.kind = "text" /\ arg.form = "z" /\ pc = "done"
                /\ op = "convertS5CidToCIDBytes") => ret = Ok(ScenarioCid)
        /\ (arg.kind = "bytes" /\ pc = "done" /\ op = "extractRawSizeFromCID")
               => ret = Ok(<<5>>)

\* C11 as stated: the concrete scenario: packing the digest of 32 zero bytes
\* with the raw type and size 5 gives 36 bytes; the z text of these starts with
\* "z", decoding it gives the bytes back, and the size extracted is 5.
C11_ConcreteScenario_AsStated == Scenario(36)

\* C11: the concrete scenario, the packed CID having 35 bytes: 1 of type, 33 of
\* multihash and 1 of size.
C11_ConcreteScenario == Scenario(35)

C11_Witness ==
    /\ src = ScenarioFile
    /\ arg.kind = "text" /\ arg.form = "z" /\ arg.val[1] = "z"
    /\ pc = "done" /\ op = "convertS5CidToCIDBytes"
    /\ ret.kind = "value" /\ Len(ret.val) = 35 /\ ret.val[35] = 5

\* what the text given decodes to: bytes, a decoder's error, or None when
\* the text has none of the three prefixes
TextDecoded ==
    IF arg.kind = "text" /\ First(arg.val) \in {"z", "u", "b"}
    THEN DecodeByPrefix(arg.val) ELSE None

\* the size the bytes declare: what follows the 34 bytes of the head
SizeDeclaredBy(bytes) == StripHigh(Slice(bytes, 34, Len(bytes)))

NextExtract ==
    \/ EncodeCIDWithPrefixZ
    \/ EncodeCIDWithPrefixU
    \/ EncodeCIDWithPrefixB
    \/ ExtractMHashFromCID
    \/ ExtractB3hashFromCID
    \/ ConvertS5CidToMHash
    \/ LoopStep
    \/ LoopExit

\* a loop that is running goes on running: its next iteration, or its exit,
\* is taken
SpecExtract ==
    InitCid /\ [][NextExtract]_vars /\ WF_vars(LoopStep) /\ WF_vars(LoopExit)

\* C19: the multihash extraction terminates: on every buffer, of every
\* length, the search loop of extractMHashFromCID and extractB3hashFromCID
\* exits, and so convertS5CidToMHash returns or throws on every text.
C19_ExtractionTerminates ==
    (pc = "loop" /\ op \in {"extractMHashFromCID", "extractB3hashFromCID",
                            "convertS5CidToMHash"})
        ~> (pc = "done")

\* the report C16 describes for the CID c, when sizeOk admits c's size field
ReportOf(c, r, sizeOk) ==
    /\ r.zcid = encodeCIDWithPrefixZ(c)
    /\ r.ucid = encodeCIDWithPrefixU(c)
    /\ r.bcid = encodeCIDWithPrefixB(c)
    /\ r.mhashb64url = encodeBase64URL(SubSeq(c, 2, 34))
    /\ r.b3hashhex = Hex(SubSeq(c, 3, 34))
    /\ sizeOk => r.b3filesize = StripHigh(SubSeq(c, 35, Len(c)))

\* getAllInfosFromCid has returned or thrown on a text form of a valid CID
\* whose size field is not zero
ReportedValidCid ==
    /\ pc = "done" /\ op = "getAllInfosFromCid"
    /\ src.kind = "bytes" /\ src.val \in ValidCids
    /\ arg.kind = "text" /\ arg.form \in {"z", "u", "b"}
    /\ StripHigh(SubSeq(src.val, 35, Len(src.val))) # <<>>

InAlphabetText ==
    arg.kind = "text" /\ (arg.form \in {"z", "u", "b"} \/ Len(arg.val) = 1)

\* C20: zero-size CIDs: on a text with a valid prefix and an in-alphabet
\* payload whose bytes declare the size 0, fewer than 34 bytes included,
\* getAllInfosFromCid returns a report with b3filesize 0 and the placeholder
\* in mhashb64url and b3hashhex, convertS5CidToMHashB64url returns the empty
\* string and checkRawSizeIsNotNull returns false; none throws or loops.  A
\* call that is in the search loop has the decoded bytes in cidBuf.
C20_ZeroSizeCids ==
    (op \in {"getAllInfosFromCid", "convertS5CidToMHashB64url", "checkRawSizeIsNotNull"}
        /\ InAlphabetText) =>
        /\ pc = "loop" => SizeDeclaredBy(cidBuf) # <<>>
        /\ pc = "done" =>
              \A b \in {TextDecoded} :
                 (b.kind = "value" /\ SizeDeclaredBy(b.val) = <<>>) =>
                    /\ ret.kind = "value"
                    /\ op = "getAllInfosFromCid" =>
                           /\ ret.val.b3filesize = <<>>
                           /\ ret.val.mhashb64url = NotPossible
                           /\ ret.val.b3hashhex = NotPossible
                    /\ op = "convertS5CidToMHashB64url" => ret.val = <<>>
                    /\ op = "checkRawSizeIsNotNull" => ret.val = FALSE

C20_Witness ==
    /\ op = "getAllInfosFromCid" /\ pc = "done"
    /\ arg.kind = "text" /\ arg.form = "u"
    /\ src.kind = "bytes" /\ Len(src.val) = 33
    /\ ret.kind = "value"
    /\ ret.val.b3filesize = <<>>
    /\ ret.val.mhashb64url = NotPossible

(***************************************************************************)
(* The spellings of the b form: the base32 body of a byte sequence is      *)
(* written in upper, lower or mixed case after a "b" or "B", and the text  *)
(* is decoded by decodeCIDWithPrefixB or through convertS5CidToCIDBytes.   *)
(* xtrail holds the prefix, the spelling and the decoder; xbytes holds the *)
(* decoder's result.                                                       *)
(***************************************************************************)
MaxCaseLen == 4          \* longest byte sequence spelled

\* 0x0a makes a body that begins with the letter B
CaseByteVals == {0, 10, 165, 255}

Spellings == {"upper", "lower", "oddLower", "evenLower"}

\* the body with the letters the spelling names in lower case
Spell(body, how) ==
    AsSeq([k \in 1..Len(body) |->
        IF how = "lower" \/ (how = "oddLower" /\ k % 2 = 1)
                         \/ (how = "evenLower" /\ k % 2 = 0)
        THEN toLowerCase(<<body[k]>>)[1] ELSE body[k]])

InitCase ==
    /\ CodecOff /\ SizeOff /\ CidOff /\ StreamOff /\ ProgressOff
    /\ xpc = "body"
    /\ xorig \in SeqsUpTo(CaseByteVals, MaxCaseLen)
    /\ xbytes = <<>>
    /\ xtext = <<>>
    /\ xtrail = <<>>

\* a caller writes the b form of the bytes in a spelling of its own
SpellB ==
    /\ xpc = "body"
    /\ \E p \in {"b", "B"}, how \in Spellings :
          /\ xtext' = <<p>> \o Spell(encodeBase32RFC(xorig), how)
          /\ xtrail' = <<p, how>>
    /\ xpc' = "text"
    /\ UNCHANGED <<xorig, xbytes, codecVars, sizeVars, cidVars, streamVars, progressVars>>

CaseDecoded(by, r) ==
    /\ xpc = "text"
    /\ xbytes' = r
    /\ xtrail' = Append(xtrail, by)
    /\ xpc' = "done"
    /\ UNCHANGED <<xorig, xtext, codecVars, sizeVars, cidVars, streamVars, progressVars>>

CaseDecodeCIDWithPrefixB == CaseDecoded("decodeCIDWithPrefixB", decodeCIDWithPrefixB(xtext))

CaseConvertS5CidToCIDBytes ==
    CaseDecoded("convertS5CidToCIDBytes", convertS5CidToCIDBytes(xtext))

NextCase ==
    \/ SpellB
    \/ CaseDecodeCIDWithPrefixB
    \/ CaseConvertS5CidToCIDBytes

SpecCase == InitCase /\ [][NextCase]_vars

\* C13: case tolerance of the b form: "b" followed by the upper-case, the
\* lower-case or a mixed-case spelling of the base32 body of c decodes to c,
\* by decodeCIDWithPrefixB and through convertS5CidToCIDBytes.
C13_CaseTolerance ==
    (xpc = "done" /\ xtrail[1] = "b") => xbytes = Ok(xorig)

C13_Witness ==
    /\ xpc = "done"
    /\ xtrail = <<"b", "oddLower", "convertS5CidToCIDBytes">>
    /\ Len(xorig) = 4 /\ xorig[1] = 10
    /\ xbytes = Ok(xorig)

\* C18: the upper-case prefix: decodeCIDWithPrefixB on "B" followed by the
\* upper-case body of c removes the one prefix character and gives c, as it
\* does on "b" followed by the lower-case body, also when the body begins
\* with the letter B.
C18_UpperCasePrefix ==
    (xpc = "done" /\ xtrail = <<"B", "upper", "decodeCIDWithPrefixB">>)
        => (xbytes = Ok(xorig) /\ xbytes = decodeCIDWithPrefixB(encodeCIDWithPrefixB(xorig)))

(***************************************************************************)
(* A CID carried from one text form to another by the converters: the      *)
(* bytes are encoded with one prefix and the text is handed to the         *)
(* converter from the form it is in to another form, up to MaxHops times.  *)
(* xtrail holds the prefixes the text went through, xbytes the last        *)
(* converter's result.                                                     *)
(***************************************************************************)
MaxHops == 2             \* conversions of one text

TextForm(p, bytes) ==
    CASE p = "z" -> encodeCIDWithPrefixZ(bytes)
      [] p = "u" -> encodeCIDWithPrefixU(bytes)
      [] p = "b" -> encodeCIDWithPrefixB(bytes)

InitConvert ==
    /\ CodecOff /\ SizeOff /\ CidOff /\ StreamOff /\ ProgressOff
    /\ xpc = "bytes"
    /\ xorig \in ValidCids
    /\ xbytes = None
    /\ xtext = <<>>
    /\ xtrail = <<>>

\* a caller encodes the bytes in the form of its choice
ConvertFrom ==
    /\ xpc = "bytes"
    /\ \E p \in {"z", "u", "b"} :
          /\ xtext' = TextForm(p, xorig)
          /\ xtrail' = <<p>>
    /\ xpc' = "text"
    /\ UNCHANGED <<xorig, xbytes, codecVars, sizeVars, cidVars, streamVars, progressVars>>

\* the converter from form p1 to form p2 on a text of form p1
Converted(p1, p2, r) ==
    /\ xpc = "text"
    /\ Len(xtrail) <= MaxHops
    /\ xtrail[Len(xtrail)] = p1
    /\ xbytes' = r
    /\ IF r.kind = "value"
       THEN xtext' = r.val /\ xtrail' = Append(xtrail, p2) /\ xpc' = "text"
       ELSE xtext' = xtext /\ xtrail' = xtrail /\ xpc' = "failed"
    /\ UNCHANGED <<xorig, codecVars, sizeVars, cidVars, streamVars, progressVars>>

ConvertB58btcToB32rfcCid == Converted("z", "b", convertB58btcToB32rfcCid(xtext))
ConvertB32rfcToB58btcCid == Converted("b", "z", convertB32rfcToB58btcCid(xtext))
ConvertB64urlToB58btcCid == Converted("u", "z", convertB64urlToB58btcCid(xtext))
ConvertB58btcToB64urlCid == Converted("z", "u", convertB58btcToB64urlCid(xtext))
ConvertB64urlToB32rfcCid == Converted("u", "b", convertB64urlToB32rfcCid(xtext))
ConvertB32rfcToB64urlCid == Converted("b", "u", convertB32rfcToB64urlCid(xtext))

NextConvert ==
    \/ ConvertFrom
    \/ ConvertB58btcToB32rfcCid
    \/ ConvertB32rfcToB58btcCid
    \/ ConvertB64urlToB58btcCid
    \/ ConvertB58btcToB64urlCid
    \/ ConvertB64urlToB32rfcCid
    \/ ConvertB32rfcToB64urlCid

SpecConvert == InitConvert /\ [][NextConvert]_vars

\* C14: the direct converters agree with decode-then-encode: on the p1 text
\* of a valid CID the converter to p2 returns exactly the p2 text of the same
\* bytes, so that converting back returns the text it started from.
C14_ConvertersAgree ==
    /\ xpc # "failed"
    /\ Len(xtrail) >= 1 => xtext = TextForm(xtrail[Len(xtrail)], xorig)
    /\ Len(xtrail) >= 2 => xbytes = Ok(TextForm(xtrail[Len(xtrail)], xorig))

C14_Witness ==
    /\ xtrail = <<"z", "b", "z">>
    /\ Len(xorig) = 50
    /\ xbytes = Ok(encodeCIDWithPrefixZ(xorig))

(***************************************************************************)
(* The directory-friendly conversion.  Its input is the text of a CID in   *)
(* one of the three forms, a URL whose first label is the b form of a CID, *)
(* a URL of a bare host, or a text that is neither.  xtrail tells which,   *)
(* xorig holds the CID's bytes, xbytes the result.                         *)
(***************************************************************************)
PortalHost == <<"e", "x", "a", "m", "p", "l", "e", ".", "c", "o", "m">>
LocalHost == <<"l", "o", "c", "a", "l", "h", "o", "s", "t">>
\* the host and the port of defaultS5PortalUrl
LoopbackHost == <<"1", "2", "7", ".", "0", ".", "0", ".", "1">>
PortalPort == <<":", "5", "5", "2", "2">>

Schemes == {HttpScheme, HttpsScheme}
BareHosts == {PortalHost, LocalHost, LoopbackHost}
UrlTails == {<<>>, <<"/">>, PortalPort, <<"/", "a", ".", "t", "x", "t">>}
OtherInputs == {<<>>, <<"Q", "m">>, <<"B", "E", "Y">>, <<"s", "5", ":", "/", "/">>}

InitDirectory ==
    /\ CodecOff /\ SizeOff /\ CidOff /\ StreamOff /\ ProgressOff
    /\ xpc = "input"
    /\ xbytes = None
    /\ \/ \E c \in ValidCids, p \in {"z", "u", "b"} :
             xorig = c /\ xtext = TextForm(p, c) /\ xtrail = <<"cid", p>>
       \/ \E c \in ValidCids, sch \in Schemes, tail \in UrlTails :
             /\ xorig = c
             /\ xtext = sch \o encodeCIDWithPrefixB(c) \o <<".">> \o PortalHost \o tail
             /\ xtrail = <<"url", "subdomain">>
       \/ \E host \in BareHosts, sch \in Schemes, tail \in UrlTails :
             xorig = <<>> /\ xtext = sch \o host \o tail /\ xtrail = <<"url", "bare">>
       \/ \E t \in OtherInputs :
             xorig = <<>> /\ xtext = t /\ xtrail = <<"other", "text">>

ConvertDownloadDirectoryInputCid ==
    /\ xpc = "input"
    /\ xbytes' = convertDownloadDirectoryInputCid(xtext)
    /\ xpc' = "done"
    /\ UNCHANGED <<xorig, xtext, xtrail, codecVars, sizeVars, cidVars, streamVars, progressVars>>

NextDirectory == ConvertDownloadDirectoryInputCid

SpecDirectory == InitDirectory /\ [][NextDirectory]_vars

\* C15: the directory-friendly conversion returns a b-form CID unchanged, the
\* b form of the same bytes for a z- or u-form CID and the first label of a
\* URL that has a subdomain, and fails with InvalidCID for a URL of a bare
\* host (example.com, localhost, an IP address) and for any other input.
C15_DirectoryConversion ==
    xpc = "done" =>
        CASE xtrail = <<"cid", "b">> -> xbytes = Ok(xtext)
          [] xtrail \in {<<"cid", "z">>, <<"cid", "u">>}
                 -> xbytes = Ok(encodeCIDWithPrefixB(xorig))
          [] xtrail = <<"url", "subdomain">> -> xbytes = Ok(encodeCIDWithPrefixB(xorig))
          [] xtrail = <<"url", "bare">> -> xbytes = Throw("Invalid CID input address")
          [] xtrail = <<"other", "text">> -> xbytes = Throw("Invalid CID input address")

(***************************************************************************)
(* calculateB3hashFromFile: a read stream, a hasher and the promise the    *)
(* call returned.  stream holds the events the stream has emitted, hasher  *)
(* the bytes update was given, promise the promise's state.  The stream is *)
(* any emitter: its events come in every order.                            *)
(***************************************************************************)
MaxEvents == 5           \* events of one stream

Chunks == {<<1>>, <<2, 3>>}
ReadErrors == {"EIO", "EISDIR"}

\* Blake3Hasher's digestBuffer, a function of the bytes update was given
digestBuffer(fed) == [b3 |-> fed]

Pending == [kind |-> "pending"]

\* a promise overwritten by every call of resolve or reject
Settle_Overwrite(p, outcome) == outcome

\* resolve and reject act on a pending promise only
Settle(p, outcome) == IF p.kind = "pending" THEN outcome ELSE p

InitStream ==
    /\ CodecOff /\ SizeOff /\ CrossOff /\ CidOff /\ ProgressOff
    /\ stream = <<>>
    /\ hasher = <<>>
    /\ promise = Pending

\* stream.on("error", (err) => reject(err))
OnError ==
    /\ promise # None
    /\ Len(stream) < MaxEvents
    /\ \E e \in ReadErrors :
          /\ stream' = Append(stream, [kind |-> "error", err |-> e])
          /\ promise' = Settle(promise, [kind |-> "rejected", err |-> e])
    /\ UNCHANGED <<hasher, codecVars, sizeVars, crossVars, cidVars, progressVars>>

\* stream.on("data", (chunk) => hasher.update(chunk))
OnData ==
    /\ promise # None
    /\ Len(stream) < MaxEvents
    /\ \E c \in Chunks :
          /\ stream' = Append(stream, [kind |-> "data", chunk |-> c])
          /\ hasher' = hasher \o c
    /\ UNCHANGED <<promise, codecVars, sizeVars, crossVars, cidVars, progressVars>>

\* stream.on("end", () => resolve(hasher.digestBuffer()))
OnEnd ==
    /\ promise # None
    /\ Len(stream) < MaxEvents
    /\ stream' = Append(stream, [kind |-> "end"])
    /\ promise' = Settle(promise, [kind |-> "fulfilled", val |-> digestBuffer(hasher)])
    /\ UNCHANGED <<hasher, codecVars, sizeVars, crossVars, cidVars, progressVars>>

NextStream ==
    \/ OnError
    \/ OnData
    \/ OnEnd

SpecStream == InitStream /\ [][NextStream]_vars

\* the place of the first 'error' or 'end' among the events, 0 when none
FirstSettling ==
    IF \A k \in 1..Len(stream) : stream[k].kind = "data" THEN 0
    ELSE CHOOSE k \in 1..Len(stream) :
             /\ stream[k].kind # "data"
             /\ \A j \in 1..(k - 1) : stream[j].kind = "data"

RECURSIVE ChunksBefore(_)
\* the 'data' chunks among the first n events, one after the other
ChunksBefore(n) ==
    IF n = 0 THEN <<>>
    ELSE ChunksBefore(n - 1) \o (IF stream[n].kind = "data" THEN stream[n].chunk ELSE <<>>)

\* C17: error propagation of the digest producer: after every sequence of
\* stream events, an 'error' that came before any 'end' has rejected the
\* promise with that error, an 'end' that came before any 'error' has
\* fulfilled it with the digest of the 'data' chunks emitted until then, in
\* their order, and no later event has changed that outcome.
C17_DigestErrorPropagation ==
    promise # None =>
        IF FirstSettling = 0 THEN promise = Pending
        ELSE IF stream[FirstSettling].kind = "error"
        THEN promise = [kind |-> "rejected", err |-> stream[FirstSettling].err]
        ELSE promise = [kind |-> "fulfilled",
                        val |-> digestBuffer(ChunksBefore(FirstSettling))]

C17_Witness ==
    /\ Len(stream) = 4
    /\ stream[1].kind = "data" /\ stream[2].kind = "error"
    /\ stream[3].kind = "end" /\ stream[4].kind = "data"
    /\ promise = [kind |-> "rejected", err |-> stream[2].err]

(***************************************************************************)
(* The two writers of base64url text: convertMHashToB64url of blake3tools  *)
(* and encodeBase64URL of basetools, each on the same buffer.  xorig holds *)
(* the buffer, xtrail the writer that was called, xtext what it returned.  *)
(***************************************************************************)
InitB64url ==
    /\ CodecOff /\ SizeOff /\ CidOff /\ StreamOff /\ ProgressOff
    /\ xpc = "buffer"
    /\ xorig \in SeqsUpTo(ByteVals, MaxLen)
    /\ xbytes = <<>>
    /\ xtext = <<>>
    /\ xtrail = <<>>

B64urlWritten(by, t) ==
    /\ xpc = "buffer"
    /\ xtext' = t
    /\ xtrail' = <<by>>
    /\ xpc' = "done"
    /\ UNCHANGED <<xorig, xbytes, codecVars, sizeVars, cidVars, streamVars, progressVars>>

B64urlConvertMHashToB64url ==
    B64urlWritten("convertMHashToB64url", convertMHashToB64url(xorig))

B64urlEncodeBase64URL == B64urlWritten("encodeBase64URL", encodeBase64URL(xorig))

NextB64url ==
    \/ B64urlConvertMHashToB64url
    \/ B64urlEncodeBase64URL

SpecB64url == InitB64url /\ [][NextB64url]_vars

\* C21: the two base64url encoders agree: on every buffer, of every length
\* modulo 3, convertMHashToB64url returns what encodeBase64URL returns, and
\* the text holds no "=".
C21_EncodersAgree ==
    (xpc = "done" /\ xtrail = <<"convertMHashToB64url">>)
        => (xtext = encodeBase64URL(xorig) /\ "=" \notin Range(xtext))

(***************************************************************************)
(* onUploadProgress and the two counters of its module.  stdout holds what *)
(* the calls wrote, one record for each write, for each move of the cursor *)
(* and for the progress bar of each call; call holds the number and the    *)
(* arguments of the last call.                                             *)
(***************************************************************************)
MaxCalls == 4            \* calls of onUploadProgress in one process

Totals == {0, 3, 200}
LoadedVals == {0, 1, 3, 200}

Num(n) == [kind |-> "number", val |-> n]

\* Math.floor((loaded * 100) / total): 0 / 0 is NaN, n / 0 is Infinity
progressOutputOf(loaded, total) ==
    IF total = 0
    THEN IF loaded = 0 THEN [kind |-> "NaN"] ELSE [kind |-> "Infinity"]
    ELSE Num((loaded * 100) \div total)

\* the header written whenever the percentage is 0
HeaderDue_EveryUpload(progressOutput, counter) == progressOutput = Num(0)

\* progressOutput === 0 && fileSizeCounter === 0
HeaderDue(progressOutput, counter) == progressOutput = Num(0) /\ counter = 0

MoveCursorUp == [w |-> "moveCursor", dy |-> -1]
NewLine == [w |-> "newline"]

InitProgress ==
    /\ CodecOff /\ SizeOff /\ CrossOff /\ CidOff /\ StreamOff
    /\ fileSizeCounter = 0
    /\ endProgressCounter = 0
    /\ stdout = <<>>
    /\ call = [n |-> 0, loaded |-> 0, total |-> 0]

OnUploadProgress ==
    /\ call # None
    /\ call.n < MaxCalls
    /\ \E total \in Totals, loaded \in LoadedVals :
          /\ loaded <= total
          /\ LET progressOutput == progressOutputOf(loaded, total)
                 header == HeaderDue(progressOutput, fileSizeCounter)
                 ended == progressOutput = Num(100)
                 written ==
                     (IF header THEN <<[w |-> "header", total |-> total], MoveCursorUp>>
                      ELSE <<>>)
                     \o <<[w |-> "bar", pct |-> progressOutput]>>
                     \o (IF ended THEN <<NewLine, MoveCursorUp, NewLine>> ELSE <<>>)
                     \o (IF ended /\ endProgressCounter + 1 = 2
                         THEN <<[w |-> "blankLines"]>> ELSE <<>>)
                     \o <<MoveCursorUp>>
             IN /\ fileSizeCounter' = IF header THEN fileSizeCounter + 1 ELSE fileSizeCounter
                /\ endProgressCounter' =
                       IF ended THEN endProgressCounter + 1 ELSE endProgressCounter
                /\ stdout' = stdout \o written
                /\ call' = [n |-> call.n + 1, loaded |-> loaded, total |-> total]
    /\ UNCHANGED <<codecVars, sizeVars, crossVars, cidVars, streamVars>>

NextProgress == OnUploadProgress

SpecProgress == InitProgress /\ [][NextProgress]_vars

\* where stdout holds a write of kind w, and where the bar of a percentage
Written(out, w) == {k \in 1..Len(out) : out[k].w = w}
BarsAt(out, n) == {k \in Written(out, "bar") : out[k].pct = Num(n)}

\* what stdout holds: one header at most, before the first bar at 0, and the
\* block of blank lines with the second bar at 100
HeaderOnce ==
    call # None =>
        /\ fileSizeCounter \in {0, 1}
        /\ Cardinality(Written(stdout, "header")) = fileSizeCounter
        /\ (fileSizeCounter = 1) = (BarsAt(stdout, 0) # {})
        /\ \A h \in Written(stdout, "header") :
              /\ h + 2 \in BarsAt(stdout, 0)
              /\ \A k \in BarsAt(stdout, 0) : k >= h + 2
        /\ endProgressCounter = Cardinality(BarsAt(stdout, 100))
        /\ Cardinality(Written(stdout, "blankLines")) = IF endProgressCounter >= 2 THEN 1 ELSE 0
        /\ \A k \in Written(stdout, "blankLines") :
              Cardinality({b \in BarsAt(stdout, 100) : b < k}) = 2

\* what one call does: the counters do not go down, nothing written is taken
\* back, the header holds the call's total and is written by the call that
\* finds the percentage 0 and the counter 0, the block of blank lines by the
\* call that brings endProgressCounter to 2
CountersStep ==
    /\ fileSizeCounter' \in {fileSizeCounter, 1}
    /\ endProgressCounter' >= endProgressCounter
    /\ Len(stdout') >= Len(stdout)
    /\ SubSeq(stdout', 1, Len(stdout)) = stdout
    /\ \A h \in Written(stdout', "header") \ Written(stdout, "header") :
          /\ stdout'[h].total = call'.total
          /\ fileSizeCounter = 0 /\ fileSizeCounter' = 1
          /\ progressOutputOf(call'.loaded, call'.total) = Num(0)
    /\ (Written(stdout', "blankLines") # Written(stdout, "blankLines"))
           = (endProgressCounter = 1 /\ endProgressCounter' = 2)

\* C22: the header of the upload progress is written at most once in a
\* process: 'The uploading File size is <total> bytes.' is written only by
\* the first call whose floored percentage is 0, fileSizeCounter moves from 0
\* to 1 only and is never reset, so that a later upload gets no header,
\* endProgressCounter never decreases, and the block of blank lines is
\* written only by the call that brings it to 2.
C22_ProgressHeaderOnce == []HeaderOnce /\ [][CountersStep]_vars

C22_Witness ==
    /\ call = [n |-> 4, loaded |-> 200, total |-> 200]
    /\ fileSizeCounter = 1 /\ endProgressCounter = 2
    /\ stdout[1] = [w |-> "header", total |-> 3]
    /\ Cardinality(BarsAt(stdout, 0)) = 2
    /\ Written(stdout, "blankLines") # {}

====
